---- MODULE Spec2Model ----
(***************************************************************************)
(* vpc_cleaner.py: the module-level VPC search, vpc_cleanup(vpcid) and the *)
(* __main__ loop, run against a remote EC2 backend.                        *)
(*                                                                         *)
(* The script is sequential.  `pc' is the position in the script, `stage'  *)
(* the block of vpc_cleanup that is running (1 instances .. 13 the VPC),   *)
(* `todo' the rest of the collection the running for loop iterates.  The   *)
(* backend is the set `exist' of objects it holds plus the security-group  *)
(* rules; a mutating call either succeeds (and changes the backend) or     *)
(* raises ClientError.                                                     *)
(***************************************************************************)
EXTENDS Integers, Sequences, FiniteSets, TLC

\* How many calls of one program run the backend may reject for a reason
\* of its own (throttling, permissions, dependencies that are not modelled).
MaxRejects == 1

----------------------------------------------------------------------------
(* The remote objects the backend may hold, with the attributes the script *)
(* reads.                                                                  *)

VpcIds == {"v1", "v2"}

\* tag:Name of the objects that the script looks up by name filter
NameTag == [v1 |-> <<"a", "b">>, v2 |-> <<"b">>,
            g1 |-> <<"a", "b">>, g2 |-> <<"a">>,
            e1 |-> <<"b">>]

Kind == [v1 |-> "vpc", v2 |-> "vpc",
         s1 |-> "subnet", s2 |-> "subnet", s3 |-> "subnet",
         i1 |-> "instance", i2 |-> "instance", i3 |-> "instance",
         n1 |-> "nic",
         rt1 |-> "route_table", a1 |-> "rta", a2 |-> "rta", r1 |-> "route",
         rt2 |-> "route_table", r2 |-> "route",
         g1 |-> "igw", g2 |-> "igw", nat1 |-> "nat", e1 |-> "eip",
         ep1 |-> "endpoint",
         sgd |-> "sg", sgA |-> "sg", sgB |-> "sg",
         p1 |-> "peer", acld |-> "acl", acl1 |-> "acl"]

\* the VPC an object belongs to (vpc-id, attachment, requester vpc-id)
VpcOf == [s1 |-> "v1", s2 |-> "v1", s3 |-> "v2",
          i1 |-> "v1", i2 |-> "v1", i3 |-> "v2", n1 |-> "v1",
          rt1 |-> "v1", a1 |-> "v1", a2 |-> "v1", r1 |-> "v1",
          rt2 |-> "v1", r2 |-> "v1",
          g1 |-> "v1", g2 |-> "v2", nat1 |-> "v1", e1 |-> "v2",
          ep1 |-> "v1", sgd |-> "v1", sgA |-> "v1", sgB |-> "v1",
          p1 |-> "v1", acld |-> "v1", acl1 |-> "v1"]

\* the subnet of an instance or a network interface
SubnetOf == [i1 |-> "s1", i2 |-> "s2", i3 |-> "s3", n1 |-> "s1"]

\* the route table of an association or a route
TableOf == [a1 |-> "rt1", a2 |-> "rt1", r1 |-> "rt1", r2 |-> "rt2"]

\* rta.main, sg.group_name, netacl.is_default
main == [a1 |-> TRUE, a2 |-> FALSE]
group_name == [sgd |-> "default", sgA |-> "A", sgB |-> "B"]
is_default == [acld |-> TRUE, acl1 |-> FALSE]

SgIds == {"sgd", "sgA", "sgB"}

\* The order in which the backend returns objects (reversed when rev).
ReturnOrder == <<"v1", "v2", "s1", "s2", "s3", "i1", "i2", "i3", "n1",
                 "rt1", "rt2", "a1", "a2", "r1", "r2", "g1", "g2", "nat1", "e1", "ep1",
                 "sgd", "sgA", "sgB", "p1", "acld", "acl1">>

----------------------------------------------------------------------------
VARIABLES
  pc,           \* "search", "loop", "list", "do", "done", "exited", "crashed"
  stage,        \* the block of vpc_cleanup that is running, 1..13 (0: none)
  dry_run,      \* args.dry_run
  filter_term,  \* args.filter_term, a sequence of characters
  rev,          \* the backend returns collections in reversed order
  exist,        \* the objects the backend holds
  ingress,      \* per security group: the groups its ingress rules reference
  egress,       \* per security group: the groups its egress rules reference
  attached,     \* the internet gateways that are attached to their VPC
  vpcs,         \* the VPCs found by the search that the loop has not reached
  vpcid,        \* the argument of the running vpc_cleanup
  todo,         \* what is left of the collection the running loop iterates
  sg_failures,  \* the list of line 167
  vpc_failures, \* the list of line 209
  log,          \* the per-object lines printed before a call, in order
  calls,        \* the mutating calls issued, in order, with their outcome
  rejects,      \* how many further calls the backend may reject on its own
  start         \* the backend when the script started

vars == <<pc, stage, dry_run, filter_term, rev, exist, ingress, egress,
          attached, vpcs,
          vpcid, todo, sg_failures, vpc_failures, log, calls, rejects, start>>

----------------------------------------------------------------------------
(* Sequences *)

Reverse(s) == [i \in 1..Len(s) |-> s[Len(s) + 1 - i]]

RECURSIVE Concat(_)
Concat(ss) == IF ss = <<>> THEN <<>> ELSE Head(ss) \o Concat(Tail(ss))

\* `*term*' of line 53: the term occurs somewhere in the name
Contains(name, term) ==
  \E i \in 1..(Len(name) + 1) :
    /\ i + Len(term) - 1 <= Len(name)
    /\ SubSeq(name, i, i + Len(term) - 1) = term

RECURSIVE Split(_, _)
\* str.split(sep): the pieces of s between the occurrences of sep
Split(s, sep) ==
  IF \A i \in 1..Len(s) : s[i] # sep
  THEN <<s>>
  ELSE LET k == CHOOSE i \in 1..Len(s) :
                  s[i] = sep /\ \A j \in 1..(i - 1) : s[j] # sep
       IN  <<SubSeq(s, 1, k - 1)>> \o Split(SubSeq(s, k + 1, Len(s)), sep)

----------------------------------------------------------------------------
(* Identifiers *)

\* the id attribute of a Vpc resource
VpcIdOf == [v1 |-> <<"v", "-", "1">>, v2 |-> <<"v", "-", "2">>]

\* str(my_vpc): ec2.Vpc(id='...')
StrVpc(v) == <<"V", "p", "c", "(", "i", "d", "=", "'">> \o VpcIdOf[v]
               \o <<"'", ")">>

\* line 245: target = str(my_vpc).split("'")[1]
Target(v) == Split(StrVpc(v), "'")[2]

\* the VPC a vpc-id names
VpcById(id) == CHOOSE v \in VpcIds : VpcIdOf[v] = id

\* vpc-id filters and ec2.Vpc(vpcid) collections: the object is of VPC id
InVpc(o, id) == VpcIdOf[VpcOf[o]] = id

----------------------------------------------------------------------------
(* What the backend returns to the listing calls *)

Order == IF rev THEN Reverse(ReturnOrder) ELSE ReturnOrder

\* the objects of a kind the backend held when the script started
ExistingAtStart(kind, E) ==
  SelectSeq(Order, LAMBDA o : o \in start.exist /\ Kind[o] = kind)

\* the objects of a kind among the objects E the backend holds, in the
\* order the backend returns them
Existing(kind, E) == SelectSeq(Order, LAMBDA o : o \in E /\ Kind[o] = kind)

\* the search without its filter
SearchVpcsUnfiltered(E) == Existing("vpc", E)

\* line 53/54: ec2.vpcs.filter(Filters=filt)
SearchVpcs(E) ==
  SelectSeq(Existing("vpc", E), LAMBDA v : Contains(NameTag[v], filter_term))

\* vpc.subnets.all()
Subnets(id, E) == SelectSeq(Existing("subnet", E), LAMBDA o : InVpc(o, id))

\* subnet.instances.all() / subnet.network_interfaces.all()
InSubnet(kind, sn, E) ==
  SelectSeq(Existing(kind, E), LAMBDA o : SubnetOf[o] = sn)

\* the nested loops leaving the subnet loop after the first subnet
PerSubnetFirstOnly(kind, id, E) ==
  LET sns == Subnets(id, E)
  IN  IF sns = <<>> THEN <<>> ELSE InSubnet(kind, sns[1], E)

\* lines 73-74 and 198-199: the nested loops over subnets
PerSubnet(kind, id, E) ==
  LET sns == Subnets(id, E)
  IN  Concat([k \in 1..Len(sns) |-> InSubnet(kind, sns[k], E)])

\* rt.associations / rt.routes
OfTable(kind, rt, E) ==
  SelectSeq(Existing(kind, E), LAMBDA o : TableOf[o] = rt)

\* lines 81-107: per table its associations, its routes, the table
RouteTableWork(id, E) ==
  LET rts == SelectSeq(Existing("route_table", E), LAMBDA o : InVpc(o, id))
  IN  Concat([k \in 1..Len(rts) |->
                OfTable("rta", rts[k], E) \o OfTable("route", rts[k], E)
                  \o <<rts[k]>>])

\* the name listing narrowed to the objects of the VPC being cleaned
ByNameInVpc(kind, E) ==
  SelectSeq(Existing(kind, E),
            LAMBDA o : Contains(NameTag[o], filter_term) /\ InVpc(o, vpcid))

\* lines 110 and 136: describe_internet_gateways / describe_addresses by filt
ByName(kind, E) ==
  SelectSeq(Existing(kind, E), LAMBDA o : Contains(NameTag[o], filter_term))

\* a vpc-id listing that keeps only the first object of the answer
ByVpcFirstOnly(kind, id, E) ==
  LET all == SelectSeq(Existing(kind, E), LAMBDA o : InVpc(o, id))
  IN  IF all = <<>> THEN <<>> ELSE <<all[1]>>

\* lines 124, 157, 210, and the vpc.* collections: scoped by vpc-id
ByVpc(kind, id, E) == SelectSeq(Existing(kind, E), LAMBDA o : InVpc(o, id))

\* the retry list left in the order of failure
RetryOrderNotReversed(failures) == failures

\* the retry list gone through twice
RetryOrderTwice(failures) == Reverse(failures) \o Reverse(failures)

\* line 184: sg_failures.reverse()
RetryOrder(failures) == Reverse(failures)

\* Listing with the network-interface block moved before the subnet block
ListingInterfacesFirst(st, id, E) ==
  CASE st = 1  -> PerSubnet("instance", id, E)
    [] st = 2  -> RouteTableWork(id, E)
    [] st = 3  -> ByName("igw", E)
    [] st = 4  -> ByVpc("nat", id, E)
    [] st = 5  -> ByName("eip", E)
    [] st = 6  -> PerSubnet("nic", id, E)
    [] st = 7  -> ByVpc("endpoint", id, E)
    [] st = 8  -> ByVpc("sg", id, E)
    [] st = 9  -> IF Len(sg_failures) > 0 THEN RetryOrder(sg_failures)
                  ELSE <<>>
    [] st = 10 -> Subnets(id, E)
    [] st = 11 -> ByVpc("peer", id, E)
    [] st = 12 -> ByVpc("acl", id, E)
    [] st = 13 -> <<VpcById(id)>>

\* The collection that block `st' of vpc_cleanup(id) iterates when the
\* backend holds E: the order of the cases is the order of the blocks.
Listing(st, id, E) ==
  CASE st = 1  -> PerSubnet("instance", id, E)
    [] st = 2  -> RouteTableWork(id, E)
    [] st = 3  -> ByName("igw", E)
    [] st = 4  -> ByVpc("nat", id, E)
    [] st = 5  -> ByName("eip", E)
    [] st = 6  -> Subnets(id, E)
    [] st = 7  -> ByVpc("endpoint", id, E)
    [] st = 8  -> ByVpc("sg", id, E)
    [] st = 9  -> IF Len(sg_failures) > 0 THEN RetryOrder(sg_failures)
                  ELSE <<>>
    [] st = 10 -> PerSubnet("nic", id, E)
    [] st = 11 -> ByVpc("peer", id, E)
    [] st = 12 -> ByVpc("acl", id, E)
    [] st = 13 -> <<VpcById(id)>>

----------------------------------------------------------------------------
(* The backend's answer to a mutating call *)

\* Another group that still exists has a rule that references group g: the
\* backend rejects the delete of g (DependencyViolation).
Referenced(g) ==
  \E h \in (exist \cap SgIds) \ {g} : g \in ingress[h] \cup egress[h]

\* The gateway is attached to the VPC it is detached from; otherwise the
\* backend rejects the detach (Gateway.NotAttached).
AttachedTo(g, id) == g \in attached /\ InVpc(g, id)

\* An instance or a network interface is still in subnet sn: the backend
\* rejects the delete of sn (DependencyViolation).
InUse(sn) ==
  \E x \in exist : Kind[x] \in {"instance", "nic"} /\ SubnetOf[x] = sn

\* the backend has a rule that rejects the delete of o
MustReject(o) ==
  \/ Kind[o] = "sg" /\ Referenced(o)
  \/ Kind[o] = "subnet" /\ InUse(o)

\* The outcomes of a call the backend has no rule about: TRUE it succeeds,
\* FALSE it raises ClientError.
Outcomes == IF rejects > 0 THEN {TRUE, FALSE} ELSE {TRUE}

\* the outcomes of the delete, terminate or release of o
OutcomesOn(o) == IF MustReject(o) THEN {FALSE} ELSE Outcomes

\* what is left of the rejections the backend may make on its own
Left(o, ok) == IF ok \/ MustReject(o) THEN rejects ELSE rejects - 1

Call(op, o, ok) == [op |-> op, obj |-> o, ok |-> ok, vpc |-> vpcid,
                    stage |-> stage]

Line(o) == [obj |-> o, vpc |-> vpcid, stage |-> stage]

----------------------------------------------------------------------------
(* Control flow *)

\* the for loop takes its next element; after the last one the next block
\* of vpc_cleanup starts, and after block 13 vpc_cleanup returns
Advance ==
  /\ todo' = Tail(todo)
  /\ IF Len(todo) > 1
     THEN UNCHANGED <<pc, stage>>
     ELSE IF stage = 13
          THEN pc' = "loop" /\ stage' = 0
          ELSE pc' = "list" /\ stage' = stage + 1

\* an exception no except clause catches leaves vpc_cleanup and the
\* __main__ loop: the interpreter prints the traceback and exits
Raise == pc' = "crashed" /\ UNCHANGED <<todo, stage>>

\* Attempt without its `if not dry_run:'
AttemptUngated(op, caught) ==
  LET o == Head(todo)
  IN  \E ok \in OutcomesOn(o) :
        /\ calls' = Append(calls, Call(op, o, ok))
        /\ rejects' = Left(o, ok)
        /\ exist' = IF ok THEN exist \ {o} ELSE exist
        /\ IF ok \/ caught THEN Advance ELSE Raise

\* `if not dry_run:' followed by one call on the loop's object, inside
\* try/except ClientError (caught) or outside any try (not caught)
Attempt(op, caught) ==
  LET o == Head(todo)
  IN  IF dry_run
      THEN Advance /\ UNCHANGED <<exist, calls, rejects>>
      ELSE \E ok \in OutcomesOn(o) :
             /\ calls' = Append(calls, Call(op, o, ok))
             /\ rejects' = Left(o, ok)
             /\ exist' = IF ok THEN exist \ {o} ELSE exist
             /\ IF ok \/ caught THEN Advance ELSE Raise

\* print, then the gated call
LogAndAttempt(op, caught) ==
  /\ log' = Append(log, Line(Head(todo)))
  /\ Attempt(op, caught)

\* the running for loop is about to run its body on an object of the kind
Doing(kind) ==
  /\ pc = "do"
  /\ Kind[Head(todo)] = kind

----------------------------------------------------------------------------
(* The script *)

Configs ==
  { net \cup rt \cup gw \cup misc :
      net \in {{}, {"s1", "s2", "i1", "i2"}, {"s1", "i1", "n1", "s3", "i3"}},
      rt \in {{}, {"rt1", "a1", "a2", "r1"},
              {"rt1", "a1", "a2", "r1", "rt2", "r2"}},
      gw \in {{}, {"g1", "g2", "nat1", "e1"}},
      misc \in {{}, {"ep1", "p1", "acl1"}} }

NoRules == [g \in SgIds |-> {}]

\* the security groups of the VPC and the groups their rules reference
SgConfigs ==
  { [sgs |-> {"sgd"}, ingress |-> NoRules, egress |-> NoRules],
    [sgs |-> {"sgd", "sgA", "sgB"},
     ingress |-> [NoRules EXCEPT !["sgA"] = {"sgB"}, !["sgB"] = {"sgA"}],
     egress |-> NoRules],
    [sgs |-> {"sgd", "sgA"},
     ingress |-> [NoRules EXCEPT !["sgd"] = {"sgA"}], egress |-> NoRules],
    [sgs |-> {"sgd", "sgA", "sgB"},
     ingress |-> [NoRules EXCEPT !["sgB"] = {"sgB"}],
     egress |-> [NoRules EXCEPT !["sgA"] = {"sgB"}]] }

FilterTerms == {<<"a">>, <<"b">>, <<"c">>}

\* lines 39-49: the arguments are parsed, nothing has been asked of the
\* backend, which holds some VPCs and their dependent objects
Init ==
  /\ pc = "search"
  /\ stage = 0
  /\ dry_run \in BOOLEAN
  /\ filter_term \in FilterTerms
  /\ rev \in BOOLEAN
  /\ \E c \in Configs, sg \in SgConfigs :
       /\ exist = VpcIds \cup {"acld"} \cup c \cup sg.sgs
       /\ ingress = sg.ingress
       /\ egress = sg.egress
  /\ attached = {g \in exist : Kind[g] = "igw"}
  /\ vpcs = <<>>
  /\ vpcid = <<>>
  /\ todo = <<>>
  /\ sg_failures = <<>>
  /\ vpc_failures = <<>>
  /\ log = <<>>
  /\ calls = <<>>
  /\ rejects = MaxRejects
  /\ start = [exist |-> exist, ingress |-> ingress, egress |-> egress]

\* lines 51-57: the search; a ClientError ends the program
Search ==
  /\ pc = "search"
  /\ \E ok \in BOOLEAN :
       IF ok
       THEN vpcs' = SearchVpcs(exist) /\ pc' = "loop"
       ELSE vpcs' = vpcs /\ pc' = "exited"
  /\ UNCHANGED <<stage, dry_run, filter_term, rev, exist, ingress, egress,
                 attached, vpcid, todo, sg_failures, vpc_failures, log,
                 calls, rejects, start>>

\* lines 244-246 and 64-68: the next VPC of the loop enters vpc_cleanup
MainLoop ==
  /\ pc = "loop"
  /\ IF vpcs = <<>>
     THEN pc' = "done" /\ UNCHANGED <<vpcs, vpcid, stage>>
     ELSE LET target == Target(Head(vpcs))
          IN  /\ vpcs' = Tail(vpcs)
              /\ vpcid' = target
              /\ IF target = <<>>
                 THEN UNCHANGED <<pc, stage>>
                 ELSE pc' = "list" /\ stage' = 1
  /\ UNCHANGED <<dry_run, filter_term, rev, exist, ingress, egress, attached,
                 todo, sg_failures, vpc_failures, log, calls, rejects,
                 start>>

\* a block of vpc_cleanup starts: it asks the backend for its collection
List ==
  /\ pc = "list"
  /\ LET found == Listing(stage, vpcid, exist)
     IN  /\ todo' = found
         /\ IF found # <<>>
            THEN pc' = "do" /\ stage' = stage
            ELSE pc' = "list" /\ stage' = stage + 1
  /\ sg_failures' = IF stage = 8 THEN <<>> ELSE sg_failures
  /\ vpc_failures' = IF stage = 11 THEN <<>> ELSE vpc_failures
  /\ UNCHANGED <<dry_run, filter_term, rev, exist, ingress, egress, attached,
                 vpcs, vpcid, log, calls, rejects, start>>

Rest == <<dry_run, filter_term, rev, ingress, egress, attached, vpcs, vpcid,
          sg_failures, vpc_failures, start>>

\* lines 75-78
TerminateInstance ==
  /\ Doing("instance")
  /\ LogAndAttempt("terminate", FALSE)
  /\ UNCHANGED Rest

\* DeleteAssociation without the test of rta.main
DeleteAssociationMainToo ==
  /\ Doing("rta")
  /\ LogAndAttempt("delete", TRUE)
  /\ UNCHANGED Rest

\* lines 83-90
DeleteAssociation ==
  /\ Doing("rta")
  /\ log' = Append(log, Line(Head(todo)))
  /\ IF ~main[Head(todo)]
     THEN Attempt("delete", TRUE)
     ELSE Advance /\ UNCHANGED <<exist, calls, rejects>>
  /\ UNCHANGED Rest

\* lines 92-99
DeleteRoute ==
  /\ Doing("route")
  /\ LogAndAttempt("delete", TRUE)
  /\ UNCHANGED Rest

\* lines 100-107
DeleteRouteTable ==
  /\ Doing("route_table")
  /\ LogAndAttempt("delete", TRUE)
  /\ UNCHANGED Rest

\* InternetGateway with the delete in a try block of its own, issued
\* whatever the detach did
InternetGatewayDeleteAnyway ==
  /\ Doing("igw")
  /\ log' = Append(log, Line(Head(todo)))
  /\ LET g == Head(todo)
     IN  IF dry_run
         THEN Advance /\ UNCHANGED <<exist, attached, calls, rejects>>
         ELSE \E detached \in (IF AttachedTo(g, vpcid) THEN Outcomes
                               ELSE {FALSE}) :
                IF ~detached
                THEN /\ calls' = calls \o <<Call("detach", g, FALSE),
                                            Call("delete", g, FALSE)>>
                     /\ rejects' = IF AttachedTo(g, vpcid) THEN rejects - 1
                                   ELSE rejects
                     /\ UNCHANGED <<exist, attached>>
                     /\ Advance
                ELSE \E ok \in Outcomes :
                       /\ calls' = calls \o <<Call("detach", g, TRUE),
                                              Call("delete", g, ok)>>
                       /\ rejects' = IF ok THEN rejects ELSE rejects - 1
                       /\ attached' = attached \ {g}
                       /\ exist' = IF ok THEN exist \ {g} ELSE exist
                       /\ Advance
  /\ UNCHANGED <<dry_run, filter_term, rev, ingress, egress, vpcs, vpcid,
                 sg_failures, vpc_failures, start>>

\* lines 113-120: detach, then delete, in one try
InternetGateway ==
  /\ Doing("igw")
  /\ log' = Append(log, Line(Head(todo)))
  /\ LET g == Head(todo)
     IN  IF dry_run
         THEN Advance /\ UNCHANGED <<exist, attached, calls, rejects>>
         ELSE \E detached \in (IF AttachedTo(g, vpcid) THEN Outcomes
                               ELSE {FALSE}) :
                IF ~detached
                THEN /\ calls' = Append(calls, Call("detach", g, FALSE))
                     /\ rejects' = IF AttachedTo(g, vpcid) THEN rejects - 1
                                   ELSE rejects
                     /\ UNCHANGED <<exist, attached>>
                     /\ Advance
                ELSE \E ok \in Outcomes :
                       /\ calls' = calls \o <<Call("detach", g, TRUE),
                                              Call("delete", g, ok)>>
                       /\ rejects' = IF ok THEN rejects ELSE rejects - 1
                       /\ attached' = attached \ {g}
                       /\ exist' = IF ok THEN exist \ {g} ELSE exist
                       /\ Advance
  /\ UNCHANGED <<dry_run, filter_term, rev, ingress, egress, vpcs, vpcid,
                 sg_failures, vpc_failures, start>>

\* lines 126-133
DeleteNatGateway ==
  /\ Doing("nat")
  /\ LogAndAttempt("delete", TRUE)
  /\ UNCHANGED Rest

\* lines 137-144
ReleaseAddress ==
  /\ Doing("eip")
  /\ LogAndAttempt("release", TRUE)
  /\ UNCHANGED Rest

\* lines 148-154
DeleteSubnet ==
  /\ Doing("subnet")
  /\ LogAndAttempt("delete", TRUE)
  /\ UNCHANGED Rest

\* lines 162-164
DeleteEndpoint ==
  /\ Doing("endpoint")
  /\ LogAndAttempt("delete", FALSE)
  /\ UNCHANGED Rest

\* the attribute read as empty
ip_permissions_empty(g) == {}

\* sg.ip_permissions: the ingress rules of the group.  The resource's cached
\* description is dropped by every action that succeeds on it, and only its
\* own actions change a group's rules, so the attribute is what the backend
\* holds when it is read.
ip_permissions(g) == ingress[g]

\* Lines 173-176 and 187-190 on group g: revoke_ingress and revoke_egress
\* when the group has ingress rules, then delete; `failAt' is the call that
\* raises (1 revoke_ingress, 2 revoke_egress, 3 delete, 0 none).  The
\* result is the calls made, the backend afterwards, whether the try block
\* completed and how many rejections were the backend's own.
SgTry(g, failAt) ==
  LET has == ip_permissions(g) # {}
      in1 == IF has /\ failAt # 1 THEN [ingress EXCEPT ![g] = {}]
             ELSE ingress
      \* the argument of revoke_egress is ip_permissions read again
      arg == in1[g]
      eg1 == IF has /\ failAt \notin {1, 2}
             THEN [egress EXCEPT ![g] = @ \ arg] ELSE egress
      revs == IF ~has THEN <<>>
              ELSE IF failAt = 1 THEN <<Call("revoke_ingress", g, FALSE)>>
              ELSE IF failAt = 2 THEN <<Call("revoke_ingress", g, TRUE),
                                        Call("revoke_egress", g, FALSE)>>
              ELSE <<Call("revoke_ingress", g, TRUE),
                     Call("revoke_egress", g, TRUE)>>
      del == IF failAt \in {1, 2} THEN <<>>
             ELSE <<Call("delete", g, failAt = 0)>>
  IN  [calls |-> revs \o del,
       ingress |-> in1,
       egress |-> eg1,
       exist |-> IF failAt = 0 THEN exist \ {g} ELSE exist,
       ok |-> failAt = 0,
       own |-> IF failAt \in {1, 2} \/ (failAt = 3 /\ ~Referenced(g))
               THEN 1 ELSE 0]

\* the runs of the try block the backend allows
SgFailAts(g) ==
  {f \in 0..3 :
     /\ f \in {1, 2} => ip_permissions(g) # {} /\ rejects > 0
     /\ f = 3 => Referenced(g) \/ rejects > 0
     /\ f = 0 => ~Referenced(g)}

\* lines 169-180
SecurityGroup ==
  /\ Doing("sg") /\ stage = 8
  /\ LET sg == Head(todo)
     IN  IF group_name[sg] # "default"
         THEN /\ log' = Append(log, Line(sg))
              /\ IF dry_run
                 THEN UNCHANGED <<exist, ingress, egress, calls, rejects,
                                  sg_failures>>
                 ELSE \E f \in SgFailAts(sg) :
                        LET r == SgTry(sg, f)
                        IN  /\ calls' = calls \o r.calls
                            /\ ingress' = r.ingress
                            /\ egress' = r.egress
                            /\ exist' = r.exist
                            /\ rejects' = rejects - r.own
                            /\ sg_failures' = IF r.ok THEN sg_failures
                                              ELSE Append(sg_failures, sg)
         ELSE UNCHANGED <<log, exist, ingress, egress, calls, rejects,
                          sg_failures>>
  /\ Advance
  /\ UNCHANGED <<dry_run, filter_term, rev, attached, vpcs, vpcid,
                 vpc_failures, start>>

\* lines 185-194
RetrySecurityGroup ==
  /\ Doing("sg") /\ stage = 9
  /\ \E f \in SgFailAts(Head(todo)) :
       LET r == SgTry(Head(todo), f)
       IN  /\ calls' = calls \o r.calls
           /\ ingress' = r.ingress
           /\ egress' = r.egress
           /\ exist' = r.exist
           /\ rejects' = rejects - r.own
  /\ Advance
  /\ UNCHANGED <<dry_run, filter_term, rev, attached, vpcs, vpcid,
                 sg_failures, vpc_failures, log, start>>

\* lines 200-206
DeleteInterface ==
  /\ Doing("nic")
  /\ LogAndAttempt("delete", TRUE)
  /\ UNCHANGED Rest

\* DeletePeering with a failed delete tried again until it succeeds
DeletePeeringRetried ==
  /\ Doing("peer")
  /\ log' = Append(log, Line(Head(todo)))
  /\ IF dry_run
     THEN Advance /\ UNCHANGED <<exist, calls, rejects, vpc_failures>>
     ELSE \E ok \in OutcomesOn(Head(todo)) :
            /\ calls' = Append(calls, Call("delete", Head(todo), ok))
            /\ rejects' = Left(Head(todo), ok)
            /\ exist' = IF ok THEN exist \ {Head(todo)} ELSE exist
            /\ IF ok
               THEN Advance /\ UNCHANGED vpc_failures
               ELSE /\ UNCHANGED <<pc, stage, todo>>
                    /\ vpc_failures' = Append(vpc_failures, Head(todo))
  /\ UNCHANGED <<dry_run, filter_term, rev, ingress, egress, attached, vpcs,
                 vpcid, sg_failures, start>>

\* lines 215-222
DeletePeering ==
  /\ Doing("peer")
  /\ LogAndAttempt("delete", TRUE)
  /\ vpc_failures' =
       IF calls' # calls /\ ~calls'[Len(calls')].ok
       THEN Append(vpc_failures, Head(todo)) ELSE vpc_failures
  /\ UNCHANGED <<dry_run, filter_term, rev, ingress, egress, attached, vpcs,
                 vpcid, sg_failures, start>>

\* lines 226-230
DeleteAcl ==
  /\ Doing("acl")
  /\ IF ~is_default[Head(todo)]
     THEN LogAndAttempt("delete", FALSE)
     ELSE Advance /\ UNCHANGED <<log, exist, calls, rejects>>
  /\ UNCHANGED Rest

\* lines 233-239
DeleteVpc ==
  /\ Doing("vpc")
  /\ LogAndAttempt("delete", TRUE)
  /\ UNCHANGED Rest

Next ==
  \/ Search
  \/ MainLoop
  \/ List
  \/ TerminateInstance
  \/ DeleteAssociation
  \/ DeleteRoute
  \/ DeleteRouteTable
  \/ InternetGateway
  \/ DeleteNatGateway
  \/ ReleaseAddress
  \/ DeleteSubnet
  \/ DeleteEndpoint
  \/ SecurityGroup
  \/ RetrySecurityGroup
  \/ DeleteInterface
  \/ DeletePeering
  \/ DeleteAcl
  \/ DeleteVpc

Spec == Init /\ [][Next]_vars

----------------------------------------------------------------------------
(* What the properties below speak about *)

\* the objects a sequence of calls or of log lines names
Objs(seq) == [i \in 1..Len(seq) |-> seq[i].obj]

RECURSIVE Runs(_)
\* a sequence of objects with repetitions next to each other dropped
Runs(os) ==
  IF Len(os) <= 1 THEN os
  ELSE IF os[1] = os[2] THEN Runs(Tail(os))
       ELSE <<os[1]>> \o Runs(Tail(os))

\* the calls of block st of vpc_cleanup(id)
CallsAt(st, id) == SelectSeq(calls, LAMBDA c : c.stage = st /\ c.vpc = id)

\* the place of a mutating call in the deletion order, read off the kind of
\* its object (the retry pass is the security groups' second place)
Place(c) ==
  CASE Kind[c.obj] = "instance"    -> 1
    [] Kind[c.obj] \in {"rta", "route", "route_table"} -> 2
    [] Kind[c.obj] = "igw"         -> 3
    [] Kind[c.obj] = "nat"         -> 4
    [] Kind[c.obj] = "eip"         -> 5
    [] Kind[c.obj] = "subnet"      -> 6
    [] Kind[c.obj] = "endpoint"    -> 7
    [] Kind[c.obj] = "sg"          -> IF c.stage = 9 THEN 9 ELSE 8
    [] Kind[c.obj] = "nic"         -> 10
    [] Kind[c.obj] = "peer"        -> 11
    [] Kind[c.obj] = "acl"         -> 12
    [] Kind[c.obj] = "vpc"         -> 13

\* the route table a call of the route-table block works on, and the place
\* of the call within the table's work
TableOfCall(c) ==
  IF Kind[c.obj] = "route_table" THEN c.obj ELSE TableOf[c.obj]

PlaceInTable(c) ==
  CASE Kind[c.obj] = "rta" -> 1
    [] Kind[c.obj] = "route" -> 2
    [] Kind[c.obj] = "route_table" -> 3

----------------------------------------------------------------------------
\* C1: in a dry run no mutating call is ever issued, in any block of
\* vpc_cleanup, the security-group retry pass included (it has nothing to
\* iterate), and the backend stays as it was.
C1_DryRunIssuesNoMutatingCall ==
  dry_run =>
    /\ calls = <<>>
    /\ sg_failures = <<>>
    /\ ~(pc = "do" /\ stage = 9)
    /\ [exist |-> exist, ingress |-> ingress, egress |-> egress] = start

\* a dry run that went through every kind of object and finished
C1_Witness ==
  /\ dry_run
  /\ pc = "done"
  /\ {"instance", "rta", "route", "route_table", "igw", "nat", "eip",
      "subnet", "endpoint", "sg", "nic", "peer", "acl", "vpc"}
       \subseteq {Kind[log[i].obj] : i \in 1..Len(log)}

\* C2 (as claimed): a rejected mutating call never ends the program: no
\* ClientError of a mutating call is left uncaught, so the rest of the block
\* and the following blocks run.
C2_RejectionNeverFatal == pc # "crashed"

\* C3: within one vpc_cleanup the mutating calls come in the order
\* instances, route tables (per table associations, routes, the table),
\* internet gateways, NAT gateways, elastic IPs, subnets, endpoints,
\* security groups, their retry, network interfaces, peering connections,
\* network ACLs, the VPC: the call issued last never belongs to an earlier
\* place than a call issued before it (in every state, so for every pair of
\* calls), and the calls on one route table are not interleaved with those
\* on another.
C3_CallsInStageOrder ==
  LET j == Len(calls)
  IN  \A i \in 1..(j - 1) :
        calls[i].vpc = calls[j].vpc =>
          /\ Place(calls[i]) <= Place(calls[j])
          /\ calls[j].stage = Place(calls[j])
          /\ (Place(calls[i]) = 2 /\ Place(calls[j]) = 2
                /\ TableOfCall(calls[i]) = TableOfCall(calls[j]))
               => /\ PlaceInTable(calls[i]) <= PlaceInTable(calls[j])
                  /\ \A k \in i..j :
                       TableOfCall(calls[k]) = TableOfCall(calls[i])

\* a live run that finished with calls of nine places, of two route tables,
\* one of them rejected
C3_Witness ==
  /\ ~dry_run
  /\ pc = "done"
  /\ Cardinality({Place(calls[i]) : i \in 1..Len(calls)}) >= 9
  /\ \E i, j \in 1..Len(calls) :
       /\ Kind[calls[i].obj] = "route_table"
       /\ Kind[calls[j].obj] = "route_table"
       /\ calls[i].obj # calls[j].obj
  /\ \E i \in 1..Len(calls) : ~calls[i].ok

----------------------------------------------------------------------------
\* the dependent objects that reference VPC v in the backend
Dependents(v) ==
  {o \in exist :
     /\ Kind[o] \in {"instance", "route_table", "igw", "nat", "subnet",
                     "endpoint", "sg", "nic", "peer", "acl"}
     /\ VpcOf[o] = v
     /\ Kind[o] = "igw" => o \in attached
     /\ Kind[o] = "sg" => group_name[o] # "default"
     /\ Kind[o] = "acl" => ~is_default[o]}

\* delete_vpc is the next call
AboutToDeleteVpc == pc = "do" /\ stage = 13 /\ ~dry_run

----------------------------------------------------------------------------
IsPrefix(a, b) == Len(a) <= Len(b) /\ SubSeq(b, 1, Len(a)) = a

\* the groups whose first-pass try block raised, in the order of failure
FailedFirst(id) ==
  Objs(SelectSeq(CallsAt(8, id), LAMBDA c : ~c.ok))

\* the groups the retry pass issued calls on, in order
Retried(id) == Runs(Objs(CallsAt(9, id)))

\* vpc_cleanup(id) is running a block after block st
Past(st, id) == vpcid = id /\ pc \in {"list", "do"} /\ stage > st

\* C5: the groups the retry pass works on are the groups that failed in the
\* first pass, in reversed order of failure: a prefix of them while the
\* retry runs, all of them once it is over; the default group is among
\* neither.
C5_RetryIsReversedFailures ==
  \A v \in VpcIds :
    LET id == VpcIdOf[v]
    IN  /\ IsPrefix(Retried(id), Reverse(FailedFirst(id)))
        /\ Past(9, id) => Retried(id) = Reverse(FailedFirst(id))
        /\ \A i \in 1..Len(Retried(id)) :
             group_name[Retried(id)[i]] # "default"

\* the retry pass is over and worked on two groups
C5_Witness ==
  \E v \in VpcIds :
    /\ Past(9, VpcIdOf[v])
    /\ Len(Retried(VpcIdOf[v])) = 2
    /\ "sgd" \in exist

----------------------------------------------------------------------------
\* the VPCs the search finds in the backend the script started with
MatchedAtStart ==
  SelectSeq(Order, LAMBDA v : /\ v \in VpcIds \cap start.exist
                              /\ Contains(NameTag[v], filter_term))

\* the objects a pass of block st prints a line for when the backend is E
Printed(st, id, E) ==
  SelectSeq(Listing(st, id, E),
            LAMBDA o : /\ Kind[o] = "sg" => group_name[o] # "default"
                       /\ Kind[o] = "acl" => ~is_default[o])

\* the objects the lines of a dry run name: nothing changes the backend, so
\* every block lists in the backend the script started with
DryRunObjects ==
  Concat([k \in 1..Len(MatchedAtStart) |->
            Concat([n \in 1..12 |->
                      Printed(IF n < 9 THEN n ELSE n + 1,
                              VpcIdOf[MatchedAtStart[k]], start.exist)])])

\* the objects a live run issued mutating calls on, a retried group once
LiveRunObjects ==
  Runs(Objs(SelectSeq(calls, LAMBDA c : c.stage # 9)))

\* what DryRunObjects rests on: a finished dry run printed those lines
DryRunObjectsAreTheLog ==
  (dry_run /\ pc = "done") => Objs(log) = DryRunObjects

\* C6 (as claimed): from the same backend and filter term, the lines of a
\* dry run name the objects a live run issues mutating calls on, in the
\* same order.
C6_DryRunLogIsLiveRunCalls ==
  (~dry_run /\ pc = "done") => LiveRunObjects = DryRunObjects

----------------------------------------------------------------------------
\* the VPCs delete_vpc was issued on, in order
VpcDeletes == Objs(SelectSeq(calls, LAMBDA c : Kind[c.obj] = "vpc"))

\* C7 (as claimed): a live run goes through the matched VPCs in the order
\* of the search and, whatever calls the backend rejects, ends normally
\* having issued delete_vpc on every one of them.
C7_EveryMatchedVpcIsReached ==
  (~dry_run /\ pc \in {"done", "crashed"}) =>
    pc = "done" /\ VpcDeletes = MatchedAtStart

\* what holds when nothing is left uncaught
VpcDeletesWhenDone ==
  (~dry_run /\ pc = "done") => VpcDeletes = MatchedAtStart

----------------------------------------------------------------------------
\* the circular scenario: groups A and B, each with an ingress rule that
\* references the other, cleaned for real
Circular ==
  /\ ~dry_run
  /\ {"sgA", "sgB"} \subseteq start.exist
  /\ start.ingress["sgA"] = {"sgB"}
  /\ start.ingress["sgB"] = {"sgA"}
  /\ start.egress = NoRules

\* the group of the two that the backend returns first, and the other
FirstListed == IF rev THEN "sgB" ELSE "sgA"
SecondListed == IF rev THEN "sgA" ELSE "sgB"

\* block 9 of the cleanup of the groups' VPC is over and the backend has
\* rejected nothing but what its rules reject
CircularDone == Circular /\ Past(9, VpcIdOf["v1"]) /\ rejects = MaxRejects

Ops(cs) == [i \in 1..Len(cs) |-> <<cs[i].op, cs[i].obj, cs[i].ok>>]

----------------------------------------------------------------------------
\* how many times block st of vpc_cleanup(id) ran its try block on group g:
\* each run ends with the call that raises or with the delete
Attempts(st, id, g) ==
  Cardinality({i \in 1..Len(calls) :
                 /\ calls[i].obj = g /\ calls[i].stage = st
                 /\ calls[i].vpc = id
                 /\ (~calls[i].ok \/ calls[i].op = "delete")})

\* C9: the retry pass runs once: a group is tried at most once in the first
\* pass and at most once in the retry pass, in the retry pass only when its
\* first try failed, and nowhere else; a failure in the retry pass does not
\* end the program, and a run that got through ends with delete_vpc issued
\* on the VPC whose groups were retried.
C9_OneRetryThenOn ==
  /\ \A v \in VpcIds, g \in SgIds :
       LET id == VpcIdOf[v]
       IN  /\ Attempts(8, id, g) <= 1
           /\ Attempts(9, id, g) <= 1
           /\ Attempts(9, id, g) = 1 =>
                \E i \in 1..Len(calls) :
                  /\ calls[i].obj = g /\ calls[i].stage = 8
                  /\ calls[i].vpc = id /\ ~calls[i].ok
  /\ \A i \in 1..Len(calls) :
       Kind[calls[i].obj] = "sg" => calls[i].stage \in {8, 9}
  /\ pc = "crashed" => Kind[calls[Len(calls)].obj] # "sg"
  /\ \A v \in VpcIds :
       (CallsAt(9, VpcIdOf[v]) # <<>>
          /\ (pc = "done" \/ (pc = "loop" /\ vpcid = VpcIdOf[v])))
         => /\ CallsAt(13, VpcIdOf[v]) # <<>>
            /\ \A st \in 10..12 :
                 \A k \in 1..Len(Listing(st, VpcIdOf[v], exist)) :
                   LET o == Listing(st, VpcIdOf[v], exist)[k]
                   IN  (Kind[o] = "acl" => ~is_default[o]) =>
                         \E i \in 1..Len(calls) : calls[i].obj = o

\* a group failed in the first pass and again in the retry pass, and the
\* cleanup went on to delete_vpc
C9_Witness ==
  /\ pc = "done"
  /\ \E g \in SgIds, v \in VpcIds :
       /\ \E i \in 1..Len(calls) :
            calls[i].obj = g /\ calls[i].stage = 9 /\ ~calls[i].ok
       /\ CallsAt(13, VpcIdOf[v]) # <<>>
       /\ CallsAt(9, VpcIdOf[v]) # <<>>
       /\ \E i \in 1..Len(calls) : calls[i].stage \in 10..12

----------------------------------------------------------------------------
\* no VPC of the backend has the filter term in its name
NoMatch ==
  \A v \in VpcIds \cap start.exist : ~Contains(NameTag[v], filter_term)

\* C10: when the filter term matches no VPC, vpc_cleanup is never entered,
\* no mutating call is issued and the program does not end in an exception.
C10_NoMatchNoCall ==
  NoMatch =>
    /\ calls = <<>>
    /\ log = <<>>
    /\ stage = 0
    /\ vpcid = <<>>
    /\ pc \in {"search", "loop", "done", "exited"}
    /\ [exist |-> exist, ingress |-> ingress, egress |-> egress] = start

\* the search matched nothing and the program ended
C10_Witness ==
  /\ NoMatch
  /\ pc = "done"
  /\ \E o \in exist : Kind[o] = "instance"

----------------------------------------------------------------------------
\* the objects the script must leave alone
Protected(o) ==
  \/ Kind[o] = "sg" /\ group_name[o] = "default"
  \/ Kind[o] = "acl" /\ is_default[o]
  \/ Kind[o] = "rta" /\ main[o]

\* C11: no mutating call is ever issued on the default security group (in
\* the first pass or the retry pass), on a default network ACL or on a main
\* route-table association, and the backend keeps them.
C11_ProtectedObjectsUntouched ==
  /\ \A i \in 1..Len(calls) : ~Protected(calls[i].obj)
  /\ \A k \in 1..Len(sg_failures) : ~Protected(sg_failures[k])
  /\ \A o \in start.exist : Protected(o) => o \in exist

\* a live run that printed the line of the main association and deleted the
\* other association, a non-default group and a non-default ACL, with the
\* group retried
C11_Witness ==
  /\ ~dry_run
  /\ pc = "done"
  /\ {"a1", "sgd", "acld"} \subseteq exist
  /\ \E i \in 1..Len(log) : log[i].obj = "a1"
  /\ {"a2", "acl1"} \subseteq {calls[i].obj : i \in 1..Len(calls)}
  /\ \E i \in 1..Len(calls) : calls[i].stage = 9

----------------------------------------------------------------------------
\* C12: within one vpc_cleanup an object that is not a security group gets
\* at most one delete, terminate or release: the call issued last is the
\* first such call on its object in its run (in every state, so for every
\* call); a failed peering delete is collected and not tried again.
C12_OneAttemptPerObject ==
  LET j == Len(calls)
  IN  /\ \A i \in 1..(j - 1) :
           (/\ Kind[calls[j].obj] # "sg"
            /\ calls[j].op \in {"delete", "terminate", "release"}
            /\ calls[i].vpc = calls[j].vpc
            /\ calls[i].op \in {"delete", "terminate", "release"})
             => calls[i].obj # calls[j].obj
      /\ \A k \in 1..Len(vpc_failures) : \A i, m \in 1..j :
           (/\ calls[i].obj = vpc_failures[k]
            /\ calls[m].obj = vpc_failures[k]
            /\ calls[i].vpc = calls[m].vpc) => i = m

\* the delete of a peering connection failed, the connection was collected
\* and the run ended with the connection in place
C12_Witness ==
  /\ pc = "done"
  /\ vpc_failures = <<"p1">>
  /\ "p1" \in exist
  /\ \E i \in 1..Len(calls) : calls[i].obj = "p1" /\ ~calls[i].ok

----------------------------------------------------------------------------
\* the end-to-end scenario: a live run whose search matches v1 alone, v1
\* holding two subnets with one instance each and no security group but
\* the default one
TwoSubnets ==
  /\ ~dry_run
  /\ MatchedAtStart = <<"v1">>
  /\ {o \in start.exist : Kind[o] \in {"subnet", "instance", "nic"}
                            /\ VpcOf[o] = "v1"} = {"s1", "s2", "i1", "i2"}
  /\ start.exist \cap SgIds = {"sgd"}

\* the backend has accepted every request so far
AllAccepted == \A i \in 1..Len(calls) : calls[i].ok

\* the positions in calls of the calls with operation op on objects of kind
CallsOn(op, kind) ==
  {i \in 1..Len(calls) : calls[i].op = op /\ Kind[calls[i].obj] = kind}

\* C13: in the two-subnet scenario with an all-accepting backend the run
\* issues exactly two terminate calls (one per instance) once stage 1 is
\* over, every subnet delete comes after both of them and both subnets get
\* one, no revoke or delete is issued on a security group, and the run ends
\* normally with the delete of v1 as its last call.
C13_TwoSubnetsEndToEnd ==
  (TwoSubnets /\ AllAccepted) =>
    /\ pc # "crashed"
    /\ (Past(1, VpcIdOf["v1"]) \/ pc = "done") =>
         /\ Cardinality(CallsOn("terminate", "instance")) = 2
         /\ {calls[i].obj : i \in CallsOn("terminate", "instance")}
              = {"i1", "i2"}
    /\ \A j \in CallsOn("delete", "subnet") :
         Cardinality({i \in CallsOn("terminate", "instance") : i < j}) = 2
    /\ \A i \in 1..Len(calls) : Kind[calls[i].obj] # "sg"
    /\ pc = "done" =>
         /\ {calls[i].obj : i \in CallsOn("delete", "subnet")} = {"s1", "s2"}
         /\ Cardinality(CallsOn("delete", "subnet")) = 2
         /\ calls[Len(calls)].op = "delete"
         /\ calls[Len(calls)].obj = "v1"
         /\ exist \cap {"v1", "s1", "s2", "i1", "i2"} = {}
         /\ "sgd" \in exist

\* the scenario ran to its end with every request accepted and with route
\* tables between the instances and the subnets
C13_Witness ==
  /\ TwoSubnets
  /\ AllAccepted
  /\ pc = "done"
  /\ "rt1" \in start.exist
  /\ Len(calls) > 5

----------------------------------------------------------------------------
\* the program has stopped and some matched VPC did not get through
\* vpc_cleanup: the search ended it, or an exception left vpc_cleanup
StoppedEarly == pc \in {"exited", "crashed"}

\* what holds of a search that is rejected: the program ends before the
\* main loop, with no line printed for an object and no call issued
SearchRejectedEndsClean ==
  pc = "exited" =>
    calls = <<>> /\ log = <<>> /\ vpcid = <<>> /\ stage = 0

\* C14 (as claimed): a rejected search ends the program before vpc_cleanup
\* is entered and before any mutating call, and a rejected search is the
\* only way the program stops before every matched VPC has been processed.
C14_OnlySearchErrorStopsEarly ==
  /\ SearchRejectedEndsClean
  /\ StoppedEarly => pc = "exited"

----------------------------------------------------------------------------
\* the step is a live run of the try block on a non-default group
SgStep ==
  /\ pc = "do" /\ stage \in {8, 9} /\ ~dry_run
  /\ group_name[Head(todo)] # "default"

\* the calls the step issued
Issued == SubSeq(calls', Len(calls) + 1, Len(calls'))

\* C15 (as claimed): a live try block on a non-default group, in the first
\* pass and in the retry pass, issues the revokes when and only when the
\* group has rules (ingress or egress) at that moment, and, unless a revoke
\* is rejected, has then revoked the rules the group had and ends with the
\* delete of the group.
C15_RevokeRulesThenDelete ==
  [][SgStep =>
       LET g == Head(todo)
           had == (ingress[g] \cup egress[g]) # {}
           revokes == {i \in 1..Len(Issued) :
                         Issued[i].op \in {"revoke_ingress", "revoke_egress"}}
       IN  /\ (revokes # {}) <=> had
           /\ (\A i \in revokes : Issued[i].ok) =>
                /\ Issued # <<>>
                /\ Issued[Len(Issued)].op = "delete"
                /\ Issued[Len(Issued)].obj = g
                /\ \A i \in revokes : i < Len(Issued)
                /\ (ingress'[g] \cup egress'[g]) = {}]_vars

\* what the try block does: the revokes are issued when and only when the
\* group has ingress rules, and unless a revoke is rejected the ingress
\* rules are gone, the egress rules are the ones the group had, and the
\* delete comes last
SgTryAsCoded ==
  [][SgStep =>
       LET g == Head(todo)
           revokes == {i \in 1..Len(Issued) :
                         Issued[i].op \in {"revoke_ingress", "revoke_egress"}}
       IN  /\ (revokes # {}) <=> (ingress[g] # {})
           /\ (\A i \in revokes : Issued[i].ok) =>
                /\ Issued # <<>>
                /\ Issued[Len(Issued)].op = "delete"
                /\ \A i \in revokes : i < Len(Issued)
                /\ ingress'[g] = {}
                /\ egress'[g] = egress[g]]_vars

----------------------------------------------------------------------------
\* the operations that remove their object when they succeed
Removing == {"delete", "terminate", "release"}

\* C16: a loop works on objects the backend holds: every object the running
\* loop still has to reach exists, an instance or interface among them is
\* in a subnet that exists, and the call issued last (in every state, so
\* every call) is on an object that no earlier call has removed.
C16_CallsOnlyOnExistingObjects ==
  /\ pc = "do" =>
       \A k \in 1..Len(todo) :
         /\ todo[k] \in exist
         /\ Kind[todo[k]] \in {"instance", "nic"} =>
              SubnetOf[todo[k]] \in exist
  /\ \A i \in 1..(Len(calls) - 1) :
       (calls[i].ok /\ calls[i].op \in Removing)
         => calls[i].obj # calls[Len(calls)].obj

\* both VPCs cleaned, v1 first; the gateway that matches the filter was
\* removed in the run of v1, and the run of v2, which looks gateways up by
\* the same name filter, issued calls but none on it
C16_Witness ==
  /\ pc = "done"
  /\ VpcDeletes = <<"v1", "v2">>
  /\ \E i \in 1..Len(calls) :
       /\ calls[i].obj = "g1" /\ calls[i].op = "delete" /\ calls[i].ok
       /\ calls[i].vpc = VpcIdOf["v1"]
  /\ \E i \in 1..Len(calls) :
       calls[i].vpc = VpcIdOf["v2"] /\ calls[i].stage < 13

----------------------------------------------------------------------------
\* the objects of kind with a call of vpc_cleanup(id) on them
CalledIn(kind, id) ==
  {calls[i].obj : i \in {k \in 1..Len(calls) :
                           Kind[calls[k].obj] = kind /\ calls[k].vpc = id}}

\* the objects of kind that exist and have the filter term in their name
Named(kind) ==
  {o \in exist : Kind[o] = kind /\ Contains(NameTag[o], filter_term)}

\* C17: the gateways and addresses a live vpc_cleanup(id) acts on are the
\* ones whose name contains the filter term, whatever VPC they belong to:
\* every call on one is on a matching name, and once stage 3 (stage 5) of
\* the run is over every matching gateway (address) still there has had its
\* call in this run; the NAT gateways, endpoints and peering connections
\* acted on are of VPC id.
C17_ByNameNotByVpc ==
  /\ \A i \in 1..Len(calls) :
       /\ Kind[calls[i].obj] \in {"igw", "eip"} =>
            /\ Contains(NameTag[calls[i].obj], filter_term)
            /\ calls[i].stage = IF Kind[calls[i].obj] = "igw" THEN 3 ELSE 5
       /\ Kind[calls[i].obj] \in {"nat", "endpoint", "peer"} =>
            InVpc(calls[i].obj, calls[i].vpc)
  /\ (~dry_run /\ Past(3, vpcid)) =>
       Named("igw") \subseteq CalledIn("igw", vpcid)
  /\ (~dry_run /\ Past(5, vpcid)) =>
       Named("eip") \subseteq CalledIn("eip", vpcid)

\* the cleanup of v1 released an address of v2 while v2 is still there
\* and its own cleanup is yet to come
C17_Witness ==
  /\ \E i \in 1..Len(calls) :
       /\ calls[i].obj = "e1" /\ calls[i].op = "release" /\ calls[i].ok
       /\ calls[i].vpc = VpcIdOf["v1"] /\ VpcOf["e1"] = "v2"
  /\ "v2" \in exist
  /\ vpcs = <<"v2">>
  /\ \E i \in 1..Len(calls) : calls[i].obj = "nat1"

----------------------------------------------------------------------------
\* C18: a delete of an internet gateway is issued only right after a
\* detach of that gateway that succeeded in the same run; a detach that is
\* rejected is followed by no call on that gateway in that run, the
\* gateway stays in the backend, and the loop goes on: once stage 3 is over
\* every gateway that matches the filter has had its detach.
C18_DeleteOnlyAfterDetach ==
  /\ \A i \in 1..Len(calls) :
       Kind[calls[i].obj] = "igw" =>
         /\ calls[i].op \in {"detach", "delete"}
         /\ calls[i].op = "delete" =>
              /\ i > 1
              /\ calls[i - 1].op = "detach" /\ calls[i - 1].ok
              /\ calls[i - 1].obj = calls[i].obj
              /\ calls[i - 1].vpc = calls[i].vpc
         /\ (calls[i].op = "detach" /\ ~calls[i].ok) =>
              /\ i < Len(calls) =>
                   ~(calls[i + 1].obj = calls[i].obj
                       /\ calls[i + 1].vpc = calls[i].vpc)
              /\ calls[i].vpc = vpcid => calls[i].obj \in exist
  /\ (~dry_run /\ Past(3, vpcid)) =>
       \A g \in Named("igw") :
         \E i \in 1..Len(calls) :
           /\ calls[i].obj = g /\ calls[i].op = "detach"
           /\ calls[i].vpc = vpcid

\* the detach of the gateway listed first was rejected, no delete was
\* issued on it and it is still there, and the gateway listed next was
\* detached and deleted
C18_Witness ==
  \E i \in 1..Len(calls) :
    /\ calls[i].obj = "g2" /\ calls[i].op = "detach" /\ ~calls[i].ok
    /\ "g2" \in exist
    /\ i + 2 <= Len(calls)
    /\ calls[i + 1].obj = "g1" /\ calls[i + 1].op = "detach"
    /\ calls[i + 1].ok
    /\ calls[i + 2].obj = "g1" /\ calls[i + 2].op = "delete"
    /\ calls[i + 2].vpc = calls[i].vpc

====
